---- MODULE Spec2Model ----
(***************************************************************************)
(* A model of the Highspot MCP server: the addition evaluator, the         *)
(* Highspot search client and the tool and prompt handlers registered on  *)
(* the server, in the two revisions of index.js the repository holds       *)
(* (src/src/index.js and src/unnamed/part_001).                            *)
(*                                                                         *)
(* A JavaScript string is a sequence of one-character strings.  A text    *)
(* built by a template literal is the concatenation of its pieces, where  *)
(* a literal piece of the template is kept as one element.                 *)
(***************************************************************************)
EXTENDS Integers, Sequences, FiniteSets, TLC

VARIABLES workload, build, given, expr, evalRes, toolRes, promptRes, env, calls

vars == <<workload, build, given, expr, evalRes, toolRes, promptRes, env, calls>>

(***************************************************************************)
(* Bounds of the model.                                                    *)
(***************************************************************************)
MaxLen == 5

MaxCalls == 2

\* The characters an expression is drawn from: two digits, the delimiter,
\* whitespace, a letter and the minus sign.
Alphabet == {"2", "7", "+", " ", "a", "-"}

Strings == UNION {[1..n -> Alphabet] : n \in 0..MaxLen}

\* The two revisions of the server.
BuildSrc == "src/index.js"

BuildRoot == "index.js"

Builds == {BuildSrc, BuildRoot}

(***************************************************************************)
(* JavaScript string and number primitives used by addExpression.          *)
(***************************************************************************)
Digits == <<"0", "1", "2", "3", "4", "5", "6", "7", "8", "9">>

IsDigit(c) == \E d \in 1..10 : Digits[d] = c

DigitVal(c) == (CHOOSE d \in 1..10 : Digits[d] = c) - 1

IsSpace(c) == c = " "

\* String.prototype.split(sep) for a one-character separator: scan left to
\* right, closing the current part at each separator.  "" splits into [""].
RECURSIVE SplitFrom(_, _, _, _)
SplitFrom(s, sep, i, cur) ==
    IF i > Len(s) THEN <<cur>>
    ELSE IF s[i] = sep THEN <<cur>> \o SplitFrom(s, sep, i + 1, <<>>)
    ELSE SplitFrom(s, sep, i + 1, Append(cur, s[i]))

Split(s, sep) == SplitFrom(s, sep, 1, <<>>)

\* String.prototype.trim: drop leading, then trailing, whitespace.
RECURSIVE TrimStart(_)
TrimStart(s) ==
    IF s # <<>> /\ IsSpace(s[1]) THEN TrimStart(Tail(s)) ELSE s

RECURSIVE TrimEnd(_)
TrimEnd(s) ==
    IF s # <<>> /\ IsSpace(s[Len(s)]) THEN TrimEnd(SubSeq(s, 1, Len(s) - 1)) ELSE s

Trim(s) == TrimEnd(TrimStart(s))

AllDigits(s) == s # <<>> /\ \A i \in 1..Len(s) : IsDigit(s[i])

RECURSIVE DecimalValue(_)
DecimalValue(s) ==
    IF s = <<>> THEN 0
    ELSE 10 * DecimalValue(SubSeq(s, 1, Len(s) - 1)) + DigitVal(s[Len(s)])

NaN == [nan |-> TRUE, v |-> 0]

Num(n) == [nan |-> FALSE, v |-> n]

\* Number(string) (ECMAScript StringToNumber) on the characters of Alphabet:
\* whitespace is stripped, the empty string is 0, an optionally signed run of
\* decimal digits is its value, anything else is NaN.
Number(s) ==
    LET t == Trim(s) IN
    IF t = <<>> THEN Num(0)
    ELSE IF AllDigits(t) THEN Num(DecimalValue(t))
    ELSE IF t[1] = "-" /\ AllDigits(Tail(t)) THEN Num(0 - DecimalValue(Tail(t)))
    ELSE IF t[1] = "+" /\ AllDigits(Tail(t)) THEN Num(DecimalValue(Tail(t)))
    ELSE NaN

IsNaN(x) == x.nan

\* String(number) for an integer: its decimal digits, "-" first when negative.
RECURSIVE NatToString(_)
NatToString(n) ==
    IF n < 10 THEN <<Digits[n + 1]>>
    ELSE Append(NatToString(n \div 10), Digits[(n % 10) + 1])

NumberToString(n) ==
    IF n < 0 THEN <<"-">> \o NatToString(0 - n) ELSE NatToString(n)

\* Array.prototype.map, some and reduce as used by addExpression.
MapTrim(parts) == [i \in 1..Len(parts) |-> Trim(parts[i])]

MapNumber(parts) == [i \in 1..Len(parts) |-> Number(parts[i])]

RECURSIVE ReduceFrom(_, _, _)
ReduceFrom(numbers, i, sum) ==
    IF i > Len(numbers) THEN sum
    ELSE ReduceFrom(numbers, i + 1, sum + numbers[i].v)

\* Variant: the reduction starts at the second number.
ReduceSumSkippingFirst(numbers) == ReduceFrom(numbers, 2, 0)

ReduceSum(numbers) == ReduceFrom(numbers, 1, 0)

(***************************************************************************)
(* addExpression                                                           *)
(***************************************************************************)
InvalidExpressionMessage ==
    <<"Invalid expression. Please provide a valid addition expression with numbers separated by plus signs (e.g., \"7+9+2\"). No trailing or consecutive plus signs allowed.">>

Returned(n) == [threw |-> FALSE, value |-> n, message |-> <<>>]

Thrown(msg) == [threw |-> TRUE, value |-> 0, message |-> msg]

\* Variant: the guard without its test for an empty part.
InvalidPartsWithoutEmptyTest(parts) ==
    \/ Len(parts) < 2
    \/ \E i \in 1..Len(parts) : IsNaN(Number(parts[i]))

\* The guard of addExpression's throw.
InvalidParts(parts) ==
    \/ Len(parts) < 2
    \/ \E i \in 1..Len(parts) : parts[i] = <<>> \/ IsNaN(Number(parts[i]))

addExpression(expression) ==
    LET parts == MapTrim(Split(expression, "+")) IN
    IF InvalidParts(parts) THEN Thrown(InvalidExpressionMessage)
    ELSE Returned(ReduceSum(MapNumber(parts)))

(***************************************************************************)
(* Envelopes and the addition handlers.                                    *)
(***************************************************************************)
TextBlock(t) == [type |-> "text", text |-> t]

Envelope(blocks) == [kind |-> "envelope", content |-> blocks]

\* A handler whose promise rejects: the error reaches the server.
Fault(msg) == [kind |-> "fault", content |-> <<>>]

NoOutcome == [kind |-> "none", content |-> <<>>]

\* Variant: the catch block labels the message.
AddToolHandlerLabelled(r) ==
    IF ~r.threw THEN Envelope(<<TextBlock(NumberToString(r.value))>>)
    ELSE Envelope(<<TextBlock(<<"Error: ">> \o r.message)>>)

\* tool "add" (src/index.js) and tool "mathAdditionExample" (index.js):
\* r is what addExpression(expression) returned or threw
AddToolHandler(r) ==
    IF ~r.threw THEN Envelope(<<TextBlock(NumberToString(r.value))>>)
    ELSE Envelope(<<TextBlock(r.message)>>)

\* Variant: the catch block leaves the error's message out.
MathAdditionExamplePromptHandlerSilent(expression, r) ==
    IF ~r.threw
    THEN Envelope(<<TextBlock(<<"The sum of '">> \o expression \o <<"' is ">>
                              \o NumberToString(r.value) \o <<".">>)>>)
    ELSE Envelope(<<TextBlock(<<"I encountered an issue with that expression.">>)>>)

\* prompt "math_addition_example_prompt"
MathAdditionExamplePromptHandler(expression, r) ==
    IF ~r.threw
    THEN Envelope(<<TextBlock(<<"The sum of '">> \o expression \o <<"' is ">>
                              \o NumberToString(r.value) \o <<".">>)>>)
    ELSE Envelope(<<TextBlock(<<"I encountered an issue with that expression: ">>
                              \o r.message)>>)

\* Variant: the catch block answers with a sum of 0.
RequestExpressionForAdditionHandlerSwallowing(expressionFromPrompt, r) ==
    Envelope(<<TextBlock(<<"Okay, the sum of ">> \o expressionFromPrompt \o <<" is ">>
                         \o NumberToString(r.value) \o <<".">>)>>)

\* prompt "requestExpressionForAddition"
RequestExpressionForAdditionHandler(expressionFromPrompt, r) ==
    IF ~r.threw
    THEN Envelope(<<TextBlock(<<"Okay, the sum of ">> \o expressionFromPrompt \o <<" is ">>
                              \o NumberToString(r.value) \o <<".">>)>>)
    ELSE Envelope(<<TextBlock(<<"I encountered an issue: ">> \o r.message
                              \o <<". Please try again with a valid expression.">>)>>)

\* The test of guidedAdditionHelp's if: the argument is truthy (neither
\* undefined nor "") and not only whitespace.
GuidedAdditionHelpEvaluates(isGiven, expressionFromPrompt) ==
    isGiven /\ expressionFromPrompt # <<>> /\ Trim(expressionFromPrompt) # <<>>

\* prompt "guidedAdditionHelp", the branch that evaluates
GuidedAdditionHelpHandler(expressionFromPrompt, r) ==
    IF ~r.threw
    THEN Envelope(<<
           TextBlock(<<"Calculating '">> \o expressionFromPrompt
                     \o <<"'... The result is ">> \o NumberToString(r.value) \o <<".">>),
           TextBlock(<<"You can use the '@add' tool directly for future calculations.">>)>>)
    ELSE Envelope(<<
           TextBlock(<<"Error: ">> \o r.message),
           TextBlock(<<"Please ensure your expression is like '5+10+15'.">>)>>)

\* prompt "guidedAdditionHelp", the else branch
GuidedAdditionHelpOnly ==
    Envelope(<<TextBlock(<<"No problem. Remember to use '@add expression=\"your_expression\" when you want to sum numbers.">>)>>)

(***************************************************************************)
(* The addition workload: one expression, drawn at the start, is handed    *)
(* to the evaluator, to the addition tool and to an addition prompt of the *)
(* running revision.  evaluated tells whether the handler called           *)
(* addExpression, res what that call returned or threw.                    *)
(***************************************************************************)
NotCalled == [op |-> "none", evaluated |-> FALSE, res |-> Returned(0), out |-> NoOutcome]

Called(op, r, out) == [op |-> op, evaluated |-> TRUE, res |-> r, out |-> out]

NoCredentials == [username |-> [set |-> FALSE, val |-> <<>>],
                  password |-> [set |-> FALSE, val |-> <<>>]]

InitAdd ==
    /\ workload = "addition"
    /\ build \in Builds
    /\ given \in BOOLEAN
    /\ expr \in (IF given THEN Strings ELSE {<<>>})
    /\ evalRes = NotCalled
    /\ toolRes = NotCalled
    /\ promptRes = NotCalled
    /\ env = NoCredentials
    /\ calls = <<>>

\* A direct call of the exported addExpression.
Evaluate ==
    /\ workload = "addition"
    /\ given
    /\ evalRes = NotCalled
    /\ evalRes' = Called("addExpression", addExpression(expr), NoOutcome)
    /\ UNCHANGED <<workload, build, given, expr, toolRes, promptRes, env, calls>>

\* tools/call "add": schema { expression: z.string() }
InvokeAdd ==
    /\ workload = "addition"
    /\ build = BuildSrc
    /\ given
    /\ toolRes = NotCalled
    /\ LET r == addExpression(expr) IN
       toolRes' = Called("add", r, AddToolHandler(r))
    /\ UNCHANGED <<workload, build, given, expr, evalRes, promptRes, env, calls>>

\* tools/call "mathAdditionExample": schema { expression: z.string() }
InvokeMathAdditionExample ==
    /\ workload = "addition"
    /\ build = BuildRoot
    /\ given
    /\ toolRes = NotCalled
    /\ LET r == addExpression(expr) IN
       toolRes' = Called("mathAdditionExample", r, AddToolHandler(r))
    /\ UNCHANGED <<workload, build, given, expr, evalRes, promptRes, env, calls>>

\* prompts/get "math_addition_example_prompt": schema { expression: z.string() }
InvokeMathAdditionExamplePrompt ==
    /\ workload = "addition"
    /\ build = BuildRoot
    /\ given
    /\ promptRes = NotCalled
    /\ LET r == addExpression(expr) IN
       promptRes' = Called("math_addition_example_prompt", r,
                           MathAdditionExamplePromptHandler(expr, r))
    /\ UNCHANGED <<workload, build, given, expr, evalRes, toolRes, env, calls>>

\* prompts/get "requestExpressionForAddition": schema z.string().min(1)
InvokeRequestExpressionForAddition ==
    /\ workload = "addition"
    /\ given
    /\ Len(expr) >= 1
    /\ promptRes = NotCalled
    /\ LET r == addExpression(expr) IN
       promptRes' = Called("requestExpressionForAddition", r,
                           RequestExpressionForAdditionHandler(expr, r))
    /\ UNCHANGED <<workload, build, given, expr, evalRes, toolRes, env, calls>>

\* prompts/get "guidedAdditionHelp": schema z.string().optional()
InvokeGuidedAdditionHelp ==
    /\ workload = "addition"
    /\ promptRes = NotCalled
    /\ IF GuidedAdditionHelpEvaluates(given, expr)
       THEN LET r == addExpression(expr) IN
            promptRes' = Called("guidedAdditionHelp", r, GuidedAdditionHelpHandler(expr, r))
       ELSE promptRes' = [op |-> "guidedAdditionHelp", evaluated |-> FALSE,
                          res |-> Returned(0), out |-> GuidedAdditionHelpOnly]
    /\ UNCHANGED <<workload, build, given, expr, evalRes, toolRes, env, calls>>

NextAdd ==
    \/ Evaluate
    \/ InvokeAdd
    \/ InvokeMathAdditionExample
    \/ InvokeMathAdditionExamplePrompt
    \/ InvokeRequestExpressionForAddition
    \/ InvokeGuidedAdditionHelp

SpecAdd == InitAdd /\ [][NextAdd]_vars

(***************************************************************************)
(* Primitives of the search client: character codes, encodeURIComponent,   *)
(* Buffer.from(...).toString('base64'), JSON.parse and JSON.stringify.     *)
(***************************************************************************)
\* Code units of the characters that queries and credentials are made of.
CharCodes ==
    {<<" ", 32>>, <<"&", 38>>, <<":", 58>>, <<"a", 97>>, <<"d", 100>>, <<"e", 101>>,
     <<"f", 102>>, <<"i", 105>>, <<"n", 110>>, <<"p", 112>>, <<"u", 117>>}

CharCode(c) == (CHOOSE p \in CharCodes : p[1] = c)[2]

HexDigits == <<"0", "1", "2", "3", "4", "5", "6", "7", "8", "9", "A", "B", "C", "D", "E", "F">>

\* encodeURIComponent leaves A-Z a-z 0-9 - _ . ! ~ * ' ( ) alone; of the
\* characters of CharCodes those are the letters.
IsUriUnreserved(c) == CharCode(c) >= 97 /\ CharCode(c) <= 122

PercentEncode(c) ==
    <<"%", HexDigits[(CharCode(c) \div 16) + 1], HexDigits[(CharCode(c) % 16) + 1]>>

RECURSIVE EncodeURIComponent(_)
EncodeURIComponent(s) ==
    IF s = <<>> THEN <<>>
    ELSE (IF IsUriUnreserved(s[1]) THEN <<s[1]>> ELSE PercentEncode(s[1]))
         \o EncodeURIComponent(Tail(s))

Base64Alphabet ==
    <<"A", "B", "C", "D", "E", "F", "G", "H", "I", "J", "K", "L", "M",
      "N", "O", "P", "Q", "R", "S", "T", "U", "V", "W", "X", "Y", "Z",
      "a", "b", "c", "d", "e", "f", "g", "h", "i", "j", "k", "l", "m",
      "n", "o", "p", "q", "r", "s", "t", "u", "v", "w", "x", "y", "z",
      "0", "1", "2", "3", "4", "5", "6", "7", "8", "9", "+", "/">>

Sextet(n) == Base64Alphabet[n + 1]

\* Buffer.from(string): the UTF-8 bytes, one per character here.
BufferFrom(s) == [i \in 1..Len(s) |-> CharCode(s[i])]

\* buffer.toString('base64'): three bytes make four sextets, and a last
\* group of one or two bytes is padded with "=".
RECURSIVE Base64(_)
Base64(b) ==
    IF Len(b) = 0 THEN <<>>
    ELSE IF Len(b) = 1
    THEN <<Sextet(b[1] \div 4), Sextet((b[1] % 4) * 16), "=", "=">>
    ELSE IF Len(b) = 2
    THEN <<Sextet(b[1] \div 4), Sextet((b[1] % 4) * 16 + b[2] \div 16),
           Sextet((b[2] % 16) * 4), "=">>
    ELSE <<Sextet(b[1] \div 4), Sextet((b[1] % 4) * 16 + b[2] \div 16),
           Sextet((b[2] % 16) * 4 + b[3] \div 64), Sextet(b[3] % 64)>>
         \o Base64(SubSeq(b, 4, Len(b)))

\* JSON values.  An object is the sequence of its members in insertion order.
JNull == [t |-> "null"]

JNum(n) == [t |-> "num", n |-> n]

JStr(s) == [t |-> "str", s |-> s]

JArr(a) == [t |-> "arr", a |-> a]

JObj(o) == [t |-> "obj", o |-> o]

IsJsonSpace(c) == c = " " \/ c = "\n"

RECURSIVE SkipSpace(_, _)
SkipSpace(s, i) ==
    IF i <= Len(s) /\ IsJsonSpace(s[i]) THEN SkipSpace(s, i + 1) ELSE i

RECURSIVE DigitsEnd(_, _)
DigitsEnd(s, i) ==
    IF i <= Len(s) /\ IsDigit(s[i]) THEN DigitsEnd(s, i + 1) ELSE i

RECURSIVE QuoteEnd(_, _)
QuoteEnd(s, i) ==
    IF i > Len(s) \/ s[i] = "\"" THEN i ELSE QuoteEnd(s, i + 1)

ParseFail == [ok |-> FALSE, val |-> JNull, next |-> 0]

Parsed(v, n) == [ok |-> TRUE, val |-> v, next |-> n]

\* A key read again replaces the value of the member it named.
SetMember(o, k, v) ==
    IF \E m \in 1..Len(o) : o[m][1] = k
    THEN [m \in 1..Len(o) |-> IF o[m][1] = k THEN <<k, v>> ELSE o[m]]
    ELSE Append(o, <<k, v>>)

\* JSON.parse on the grammar of null, unsigned integers, strings without
\* escapes, arrays and objects.
RECURSIVE ParseValue(_, _), ParseElements(_, _, _), ParseMembers(_, _, _)
ParseValue(s, i0) ==
    LET i == SkipSpace(s, i0) IN
    IF i > Len(s) THEN ParseFail
    ELSE IF s[i] = "n"
    THEN IF i + 3 <= Len(s) /\ SubSeq(s, i, i + 3) = <<"n", "u", "l", "l">>
         THEN Parsed(JNull, i + 4) ELSE ParseFail
    ELSE IF s[i] = "0" THEN Parsed(JNum(0), i + 1)
    ELSE IF IsDigit(s[i])
    THEN LET j == DigitsEnd(s, i) IN Parsed(JNum(DecimalValue(SubSeq(s, i, j - 1))), j)
    ELSE IF s[i] = "\""
    THEN LET j == QuoteEnd(s, i + 1) IN
         IF j > Len(s) THEN ParseFail ELSE Parsed(JStr(SubSeq(s, i + 1, j - 1)), j + 1)
    ELSE IF s[i] = "["
    THEN LET j == SkipSpace(s, i + 1) IN
         IF j <= Len(s) /\ s[j] = "]" THEN Parsed(JArr(<<>>), j + 1)
         ELSE ParseElements(s, i + 1, <<>>)
    ELSE IF s[i] = "{"
    THEN LET j == SkipSpace(s, i + 1) IN
         IF j <= Len(s) /\ s[j] = "}" THEN Parsed(JObj(<<>>), j + 1)
         ELSE ParseMembers(s, i + 1, <<>>)
    ELSE ParseFail

ParseElements(s, i, acc) ==
    LET r == ParseValue(s, i) IN
    IF ~r.ok THEN ParseFail
    ELSE LET j == SkipSpace(s, r.next) IN
         IF j > Len(s) THEN ParseFail
         ELSE IF s[j] = "," THEN ParseElements(s, j + 1, Append(acc, r.val))
         ELSE IF s[j] = "]" THEN Parsed(JArr(Append(acc, r.val)), j + 1)
         ELSE ParseFail

ParseMembers(s, i0, acc) ==
    LET i == SkipSpace(s, i0) IN
    IF i > Len(s) \/ s[i] # "\"" THEN ParseFail
    ELSE LET q == QuoteEnd(s, i + 1)
             c == SkipSpace(s, q + 1)
         IN
         IF q > Len(s) \/ c > Len(s) \/ s[c] # ":" THEN ParseFail
         ELSE LET r == ParseValue(s, c + 1) IN
              IF ~r.ok THEN ParseFail
              ELSE LET j == SkipSpace(s, r.next)
                       o == SetMember(acc, SubSeq(s, i + 1, q - 1), r.val)
                   IN
                   IF j > Len(s) THEN ParseFail
                   ELSE IF s[j] = "," THEN ParseMembers(s, j + 1, o)
                   ELSE IF s[j] = "}" THEN Parsed(JObj(o), j + 1)
                   ELSE ParseFail

SyntaxErrorMessage == <<"Unexpected token in JSON">>

JSONParse(s) ==
    LET r == ParseValue(s, 1) IN
    IF r.ok /\ SkipSpace(s, r.next) > Len(s) THEN [threw |-> FALSE, value |-> r.val, message |-> <<>>]
    ELSE [threw |-> TRUE, value |-> JNull, message |-> SyntaxErrorMessage]

Quote(s) == <<"\"">> \o s \o <<"\"">>

\* JSON.stringify(value, null, gap): indent is the current indentation, gap
\* the indentation unit (empty for the compact form).
RECURSIVE Stringify(_, _, _), StringifyItems(_, _, _, _, _)
Stringify(v, indent, gap) ==
    IF v.t = "null" THEN <<"n", "u", "l", "l">>
    ELSE IF v.t = "num" THEN NumberToString(v.n)
    ELSE IF v.t = "str" THEN Quote(v.s)
    ELSE IF v.t = "arr"
    THEN IF v.a = <<>> THEN <<"[", "]">>
         ELSE <<"[">> \o StringifyItems(v.a, 1, FALSE, indent \o gap, gap)
              \o (IF gap = <<>> THEN <<>> ELSE <<"\n">> \o indent) \o <<"]">>
    ELSE IF v.o = <<>> THEN <<"{", "}">>
         ELSE <<"{">> \o StringifyItems(v.o, 1, TRUE, indent \o gap, gap)
              \o (IF gap = <<>> THEN <<>> ELSE <<"\n">> \o indent) \o <<"}">>

\* the elements of an array, or the members of an object, from the k-th on
StringifyItems(items, k, members, indent, gap) ==
    IF k > Len(items) THEN <<>>
    ELSE (IF k > 1 THEN <<",">> ELSE <<>>)
         \o (IF gap = <<>> THEN <<>> ELSE <<"\n">> \o indent)
         \o (IF members
             THEN Quote(items[k][1]) \o <<":">> \o (IF gap = <<>> THEN <<>> ELSE <<" ">>)
                  \o Stringify(items[k][2], indent, gap)
             ELSE Stringify(items[k], indent, gap))
         \o StringifyItems(items, k + 1, members, indent, gap)

\* JSON.stringify(results)
JSONStringify(v) == Stringify(v, <<>>, <<>>)

\* JSON.stringify(results, null, 2)
JSONStringifyIndented(v) == Stringify(v, <<>>, <<" ", " ">>)

(***************************************************************************)
(* searchHighspot and the search handlers.                                 *)
(***************************************************************************)
\* A value of process.env: a string, or undefined when the variable is unset.
Unset == [set |-> FALSE, val |-> <<>>]

EnvString(s) == [set |-> TRUE, val |-> s]

\* !value
Falsy(c) == ~c.set \/ c.val = <<>>

\* `${value}`
InTemplate(c) == IF c.set THEN c.val ELSE <<"u", "n", "d", "e", "f", "i", "n", "e", "d">>

Usernames == {Unset, EnvString(<<"u">>)}

Passwords == {Unset, EnvString(<<"p">>)}

Environments == [username : Usernames, password : Passwords]

Queries == {<<"a">>, <<"a", " ", "&">>}

\* Variant: the credentials an earlier invocation read are reused.
CachedProcessEnv ==
    IF calls # <<>>
    THEN [username |-> calls[1].username, password |-> calls[1].password]
    ELSE env

\* process.env at the time it is read
ProcessEnv == env

SearchUrl(query) ==
    <<"https://api-su2.highspot.com/v1.0/search/items?query-string=">>
    \o EncodeURIComponent(query)
    \o <<"&start=0&limit=10&sortby=relevancy">>

AuthString(username, password) ==
    Base64(BufferFrom(InTemplate(username) \o <<":">> \o InTemplate(password)))

\* the request handed to fetch
Request(query, username, password) ==
    [method |-> "GET",
     url |-> SearchUrl(query),
     accept |-> "application/json",
     authorization |-> <<"Basic ">> \o AuthString(username, password)]

ConfigurationMessage ==
    <<"Highspot username or password not configured in environment variables (HIGHSPOT_USERNAME, HIGHSPOT_PASSWORD).">>

\* index.js: if (!username || !password) throw; src/index.js has no such test
MissingCredentials(username, password) ==
    build = BuildRoot /\ (Falsy(username) \/ Falsy(password))

\* What the endpoint may answer.
ServerValues ==
    {JObj(<< <<<<"a">>, JArr(<<JNum(27), JNull>>)>> >>)}

NotJson == <<"<", "h", "t", "m", "l", ">">>

NoResponse == [kind |-> "none", status |-> 0, statusText |-> <<>>, body |-> <<>>]

Rejected == [kind |-> "rejected", status |-> 0, statusText |-> <<>>, body |-> <<>>]

Response(status, statusText, body) ==
    [kind |-> "response", status |-> status, statusText |-> statusText, body |-> body]

Responses ==
    {Response(200, <<"OK">>, JSONStringify(v)) : v \in ServerValues}
    \cup {Response(200, <<"OK">>, NotJson),
          Response(404, <<"Not Found">>, NotJson)}

\* response.ok
Ok(response) == response.status >= 200 /\ response.status <= 299

FetchFailedMessage == <<"fetch failed">>

RemoteErrorMessage(response) ==
    <<"Highspot API error: ">> \o NumberToString(response.status) \o <<" ">>
    \o response.statusText

NoResult == [threw |-> FALSE, value |-> JNull, message |-> <<>>]

SearchThrown(msg) == [threw |-> TRUE, value |-> JNull, message |-> msg]

\* Variant: the error names neither the status nor its text.
ThrowRemoteErrorWithoutStatus(response) == SearchThrown(<<"Highspot API error">>)

\* searchHighspot after fetch has resolved with a non-success status
ThrowRemoteError(response) == SearchThrown(RemoteErrorMessage(response))

\* return await response.json()
ReturnJson(response) == JSONParse(response.body)

\* tool "searchHighspot" of src/index.js: r is what searchHighspot returned
\* or threw
SearchToolHandlerSrc(r) ==
    IF ~r.threw THEN Envelope(<<TextBlock(JSONStringify(r.value))>>)
    ELSE Envelope(<<TextBlock(r.message)>>)

\* Variant: the handler has no catch block.
SearchToolHandlerRootUncaught(r) ==
    IF ~r.threw THEN Envelope(<<TextBlock(JSONStringifyIndented(r.value))>>)
    ELSE Fault(r.message)

\* tool "searchHighspot" of index.js
SearchToolHandlerRoot(r) ==
    IF ~r.threw THEN Envelope(<<TextBlock(JSONStringifyIndented(r.value))>>)
    ELSE Envelope(<<TextBlock(r.message)>>)

\* prompt "search_highspot_prompt" of index.js
SearchPromptHandler(query, r) ==
    IF ~r.threw
    THEN Envelope(<<TextBlock(<<"Okay, I searched Highspot for '">> \o query \o <<"'.">>),
                    TextBlock(JSONStringifyIndented(r.value))>>)
    ELSE Envelope(<<TextBlock(<<"I encountered an issue searching Highspot: ">>
                              \o r.message)>>)

SearchHandler(op, query, r) ==
    IF op = "search_highspot_prompt" THEN SearchPromptHandler(query, r)
    ELSE IF build = BuildSrc THEN SearchToolHandlerSrc(r)
    ELSE SearchToolHandlerRoot(r)

(***************************************************************************)
(* The search workload: up to MaxCalls invocations of the search tool and  *)
(* the search prompt, each suspended at fetch and at response.json(),      *)
(* while the environment's credentials change.  calls[i] holds the locals  *)
(* of the i-th invocation, the requests it has issued and its outcome.     *)
(***************************************************************************)
Suspended(op, query, username, password) ==
    [op |-> op, query |-> query, username |-> username, password |-> password,
     pc |-> "fetch", requests |-> <<Request(query, username, password)>>,
     response |-> NoResponse, res |-> NoResult, out |-> NoOutcome]

Finished(call, response, r) ==
    [call EXCEPT !.pc = "done", !.response = response, !.res = r,
                 !.out = SearchHandler(call.op, call.query, r)]

\* searchHighspot(query) up to its first await
BeginSearch(op, query) ==
    LET username == ProcessEnv.username
        password == ProcessEnv.password
    IN
    IF MissingCredentials(username, password)
    THEN LET r == SearchThrown(ConfigurationMessage) IN
         [op |-> op, query |-> query, username |-> username, password |-> password,
          pc |-> "done", requests |-> <<>>, response |-> NoResponse, res |-> r,
          out |-> SearchHandler(op, query, r)]
    ELSE Suspended(op, query, username, password)

\* Variant: a non-success status is answered by a second request.
AfterFetchRetrying(call, response) ==
    IF ~Ok(response)
    THEN [call EXCEPT !.requests = Append(@, @[1]), !.response = response]
    ELSE [call EXCEPT !.pc = "json", !.response = response]

\* searchHighspot once fetch has resolved
AfterFetch(call, response) ==
    IF ~Ok(response) THEN Finished(call, response, ThrowRemoteError(response))
    ELSE [call EXCEPT !.pc = "json", !.response = response]

InitSearch ==
    /\ workload = "search"
    /\ build \in Builds
    /\ given = FALSE
    /\ expr = <<>>
    /\ evalRes = NotCalled
    /\ toolRes = NotCalled
    /\ promptRes = NotCalled
    /\ env \in Environments
    /\ calls = <<>>

\* tools/call "searchHighspot": schema { query: z.string() }
InvokeSearchHighspot(query) ==
    /\ workload = "search"
    /\ Len(calls) < MaxCalls
    /\ calls' = Append(calls, BeginSearch("searchHighspot", query))
    /\ UNCHANGED <<workload, build, given, expr, evalRes, toolRes, promptRes, env>>

\* prompts/get "search_highspot_prompt": schema { query: z.string() }
InvokeSearchHighspotPrompt(query) ==
    /\ workload = "search"
    /\ build = BuildRoot
    /\ Len(calls) < MaxCalls
    /\ calls' = Append(calls, BeginSearch("search_highspot_prompt", query))
    /\ UNCHANGED <<workload, build, given, expr, evalRes, toolRes, promptRes, env>>

\* fetch resolves with a response
FetchResolves(i, response) ==
    /\ calls[i].pc = "fetch"
    /\ calls' = [calls EXCEPT ![i] = AfterFetch(calls[i], response)]
    /\ UNCHANGED <<workload, build, given, expr, evalRes, toolRes, promptRes, env>>

\* fetch rejects (no connection): the await throws
FetchRejects(i) ==
    /\ calls[i].pc = "fetch"
    /\ calls' = [calls EXCEPT ![i] =
                    Finished(calls[i], Rejected, SearchThrown(FetchFailedMessage))]
    /\ UNCHANGED <<workload, build, given, expr, evalRes, toolRes, promptRes, env>>

\* response.json() settles
JsonSettles(i) ==
    /\ calls[i].pc = "json"
    /\ calls' = [calls EXCEPT ![i] =
                    Finished(calls[i], calls[i].response, ReturnJson(calls[i].response))]
    /\ UNCHANGED <<workload, build, given, expr, evalRes, toolRes, promptRes, env>>

\* the process environment is changed from outside the handlers
EnvironmentChanges(e) ==
    /\ workload = "search"
    /\ e # env
    /\ env' = e
    /\ UNCHANGED <<workload, build, given, expr, evalRes, toolRes, promptRes, calls>>

NextSearch ==
    \/ \E q \in Queries : InvokeSearchHighspot(q)
    \/ \E q \in Queries : InvokeSearchHighspotPrompt(q)
    \/ \E i \in 1..Len(calls) : \E r \in Responses : FetchResolves(i, r)
    \/ \E i \in 1..Len(calls) : FetchRejects(i)
    \/ \E i \in 1..Len(calls) : JsonSettles(i)
    \/ \E e \in Environments : EnvironmentChanges(e)

SpecSearch == InitSearch /\ [][NextSearch]_vars

(***************************************************************************)
(* The server: either workload.                                            *)
(***************************************************************************)
Init == InitAdd \/ InitSearch

Next == NextAdd \/ NextSearch

Spec == Init /\ [][Next]_vars

(***************************************************************************)
(* The arithmetic reading of an expression, stated on the positions of     *)
(* its plus signs: a field is the text between two neighbouring cuts, a    *)
(* numeral is an optionally negated run of decimal digits with blanks      *)
(* around it, and its value is the weighted sum of its digits.             *)
(***************************************************************************)
PlusAt(s) == {i \in 1..Len(s) : s[i] = "+"}

Cuts(s) == {0} \cup PlusAt(s) \cup {Len(s) + 1}

Fields(s) ==
    {f \in Cuts(s) \X Cuts(s) :
        f[1] < f[2] /\ ~ \E c \in Cuts(s) : f[1] < c /\ c < f[2]}

FieldText(s, f) == SubSeq(s, f[1] + 1, f[2] - 1)

IsBlank(t) == \A k \in 1..Len(t) : t[k] = " "

\* t is blanks, then t[i..j], then blanks, and t[i..j] is [-]digits
NumeralAt(t, i, j) ==
    /\ i <= j
    /\ \A k \in 1..(i - 1) : t[k] = " "
    /\ \A k \in (j + 1)..Len(t) : t[k] = " "
    /\ \/ \A k \in i..j : IsDigit(t[k])
       \/ i < j /\ t[i] = "-" /\ \A k \in (i + 1)..j : IsDigit(t[k])

IsNumeral(t) == \E i, j \in 1..Len(t) : NumeralAt(t, i, j)

RECURSIVE Pow10(_)
Pow10(n) == IF n = 0 THEN 1 ELSE 10 * Pow10(n - 1)

RECURSIVE WeightedDigits(_, _, _)
WeightedDigits(t, lo, hi) ==
    IF lo > hi THEN 0
    ELSE DigitVal(t[lo]) * Pow10(hi - lo) + WeightedDigits(t, lo + 1, hi)

NumeralValue(t) ==
    LET ij == CHOOSE ij \in (1..Len(t)) \X (1..Len(t)) : NumeralAt(t, ij[1], ij[2]) IN
    IF t[ij[1]] = "-" THEN 0 - WeightedDigits(t, ij[1] + 1, ij[2])
    ELSE WeightedDigits(t, ij[1], ij[2])

RECURSIVE SumOfFields(_, _)
SumOfFields(s, F) ==
    IF F = {} THEN 0
    ELSE LET f == CHOOSE f \in F : TRUE IN
         NumeralValue(FieldText(s, f)) + SumOfFields(s, F \ {f})

ArithmeticSum(s) == SumOfFields(s, Fields(s))

TooFewParts(s) == Cardinality(Fields(s)) < 2

SomeEmptyPart(s) == \E f \in Fields(s) : IsBlank(FieldText(s, f))

SomeNonNumericPart(s) ==
    \E f \in Fields(s) : ~IsBlank(FieldText(s, f)) /\ ~IsNumeral(FieldText(s, f))

ValidExpression(s) ==
    /\ Cardinality(Fields(s)) >= 2
    /\ \A f \in Fields(s) : IsNumeral(FieldText(s, f))

\* C1: for every expression of at least two parts separated by '+', each of
\* which is, after trimming, non-empty and a number, addExpression returns
\* the arithmetic sum of the parts.
C1_ValidExpressionSums ==
    (evalRes.evaluated /\ ValidExpression(expr)) =>
        (~evalRes.res.threw /\ evalRes.res.value = ArithmeticSum(expr))

\* addExpression has returned 11 for a three-part expression such as "7+2+2".
C1_Witness ==
    /\ evalRes.evaluated
    /\ ValidExpression(expr)
    /\ Cardinality(Fields(expr)) = 3
    /\ ~evalRes.res.threw
    /\ evalRes.res.value = 11

\* C2: for every input with fewer than two parts, or a part that is empty
\* after trimming, or a part that is not a number, addExpression throws the
\* invalid-expression error and returns no sum.
C2_InvalidExpressionThrows ==
    (evalRes.evaluated
        /\ (TooFewParts(expr) \/ SomeEmptyPart(expr) \/ SomeNonNumericPart(expr))) =>
        (evalRes.res.threw /\ evalRes.res.message = InvalidExpressionMessage)

\* addExpression has thrown on consecutive plus signs between two numbers,
\* such as "2++7".
C2_Witness ==
    /\ evalRes.evaluated
    /\ Cardinality(Fields(expr)) = 3
    /\ Cardinality({f \in Fields(expr) : IsNumeral(FieldText(expr, f))}) = 2
    /\ \E f \in Fields(expr) : FieldText(expr, f) = <<>> /\ f[1] > 0 /\ f[2] <= Len(expr)
    /\ evalRes.res.threw

\* t is the canonical decimal string of the integer n
IsDecimalStringOf(t, n) ==
    LET d == IF n < 0 THEN Tail(t) ELSE t IN
    /\ t # <<>>
    /\ (n < 0) <=> (t[1] = "-")
    /\ d # <<>>
    /\ \A k \in 1..Len(d) : IsDigit(d[k])
    /\ Len(d) > 1 => d[1] # "0"
    /\ WeightedDigits(d, 1, Len(d)) = (IF n < 0 THEN 0 - n ELSE n)

\* C7: the addition tool answers a valid expression with exactly one text
\* block holding the decimal string of the sum, and an invalid expression
\* with exactly one text block holding the invalid-expression message.
C7_AddToolEnvelope ==
    toolRes.op # "none" =>
        /\ toolRes.out.kind = "envelope"
        /\ Len(toolRes.out.content) = 1
        /\ toolRes.out.content[1].type = "text"
        /\ IF ValidExpression(expr)
           THEN IsDecimalStringOf(toolRes.out.content[1].text, ArithmeticSum(expr))
           ELSE toolRes.out.content[1].text = InvalidExpressionMessage

\* mathAdditionExample has answered "2+7" with the one block "9".
C7_Witness ==
    /\ toolRes.op = "mathAdditionExample"
    /\ expr = <<"2", "+", "7">>
    /\ toolRes.out.content = <<TextBlock(<<"9">>)>>

(***************************************************************************)
(* What an envelope reports.  The tool's block is a sum when it is a       *)
(* decimal string and a failure when it is the error's message; a prompt's *)
(* first block reports the sum it ends with (before the closing full stop) *)
(* and a failure when the error's message occurs in it.                    *)
(***************************************************************************)
Carries(text, piece) ==
    \E k \in 0..(Len(text) - Len(piece)) : SubSeq(text, k + 1, k + Len(piece)) = piece

IsNumeralChar(c) == IsDigit(c) \/ c = "-"

RECURSIVE NumeralSuffix(_)
NumeralSuffix(t) ==
    IF t # <<>> /\ IsNumeralChar(t[Len(t)])
    THEN Append(NumeralSuffix(SubSeq(t, 1, Len(t) - 1)), t[Len(t)])
    ELSE <<>>

FirstText(out) == out.content[1].text

ToolReportsSum(out) ==
    /\ FirstText(out) # <<>>
    /\ \A k \in 1..Len(FirstText(out)) : IsNumeralChar(FirstText(out)[k])

ToolReportsFailure(out) == FirstText(out) = InvalidExpressionMessage

PromptSum(out) ==
    LET t == FirstText(out) IN
    IF t # <<>> /\ t[Len(t)] = "." THEN NumeralSuffix(SubSeq(t, 1, Len(t) - 1)) ELSE <<>>

PromptReportsSum(out) == PromptSum(out) # <<>>

PromptReportsFailure(out) == Carries(FirstText(out), InvalidExpressionMessage)

Agree(tool, prompt) ==
    /\ PromptReportsSum(prompt) <=> ToolReportsSum(tool)
    /\ ToolReportsSum(tool) => PromptSum(prompt) = FirstText(tool)
    /\ PromptReportsFailure(prompt) <=> ToolReportsFailure(tool)

\* C10 as claimed: for every expression the addition tool and each addition
\* prompt agree: the prompt reports a sum exactly when the tool does, the
\* same sum, and a failure exactly when the tool does.
C10_ToolAndPromptAgree ==
    (toolRes.op # "none" /\ promptRes.op # "none") => Agree(toolRes.out, promptRes.out)

\* C10 as amended: the same, except that guidedAdditionHelp, given an empty
\* or whitespace-only expression, does not evaluate it: it reports neither a
\* sum nor a failure.
C10_ToolAndPromptAgreeUnlessBlank ==
    (toolRes.op # "none" /\ promptRes.op # "none") =>
        IF promptRes.op = "guidedAdditionHelp" /\ IsBlank(expr)
        THEN ~promptRes.evaluated
             /\ ~PromptReportsSum(promptRes.out)
             /\ ~PromptReportsFailure(promptRes.out)
        ELSE promptRes.evaluated /\ Agree(toolRes.out, promptRes.out)

\* The tool and guidedAdditionHelp have both reported the sum -5 of an
\* expression such as "2+-7".
C10_Witness ==
    /\ toolRes.op # "none"
    /\ promptRes.op = "guidedAdditionHelp"
    /\ ToolReportsSum(toolRes.out)
    /\ PromptSum(promptRes.out) = <<"-", "5">>

(***************************************************************************)
(* Claims about the search client.                                         *)
(***************************************************************************)
CallIds == 1..Len(calls)

\* C3: whenever searchHighspot is invoked while the username, the password
\* or both are absent, the invocation fails with the configuration error
\* and issues no request.
C3_NoRequestWithoutCredentials ==
    \A i \in CallIds :
        (~calls[i].username.set \/ ~calls[i].password.set) =>
            /\ calls[i].requests = <<>>
            /\ calls[i].pc = "done"
            /\ calls[i].res.threw
            /\ calls[i].res.message = ConfigurationMessage

SuccessStatus(status) == status \div 100 = 2

\* C6: with credentials present, a search whose request completes with a
\* non-success status fails with an error carrying the response's status
\* code and status text; one whose request completes with a success status
\* returns the value the body is the JSON text of.
C6_StatusAndBodyPassThrough ==
    \A i \in CallIds :
        (/\ calls[i].pc = "done"
         /\ calls[i].response.kind = "response"
         /\ calls[i].username.set /\ calls[i].password.set) =>
            /\ ~SuccessStatus(calls[i].response.status) =>
                  /\ calls[i].res.threw
                  /\ \E k \in 1..(Len(calls[i].res.message) - 2) :
                        IsDecimalStringOf(
                            SubSeq(calls[i].res.message, k, k + 2),
                            calls[i].response.status)
                  /\ Carries(calls[i].res.message, calls[i].response.statusText)
            /\ SuccessStatus(calls[i].response.status) =>
                  \A v \in ServerValues :
                      calls[i].response.body = JSONStringify(v) =>
                          (~calls[i].res.threw /\ calls[i].res.value = v)

\* One search has failed on a 404 and another has returned the body's value.
C6_Witness ==
    /\ Len(calls) = 2
    /\ calls[1].pc = "done" /\ calls[1].response.status = 404 /\ calls[1].res.threw
    /\ calls[1].username.set /\ calls[1].password.set
    /\ calls[2].pc = "done" /\ calls[2].response.status = 200 /\ ~calls[2].res.threw
    /\ calls[2].username.set /\ calls[2].password.set
    /\ calls[2].res.value \in ServerValues

FailedRequest(call) ==
    \/ call.response.kind = "rejected"
    \/ call.response.kind = "response" /\ ~SuccessStatus(call.response.status)

\* C8: an invocation of the search client issues at most one GET request;
\* after that request has failed no second one is issued and the invocation
\* has ended with the failure.
C8_AtMostOneRequest ==
    \A i \in CallIds :
        /\ Len(calls[i].requests) <= 1
        /\ \A k \in 1..Len(calls[i].requests) : calls[i].requests[k].method = "GET"
        /\ FailedRequest(calls[i]) =>
              /\ Len(calls[i].requests) = 1
              /\ calls[i].pc = "done"
              /\ calls[i].res.threw

\* A search whose request was rejected has ended, having issued one request.
C8_Witness ==
    \E i \in CallIds :
        /\ calls[i].response.kind = "rejected"
        /\ calls[i].pc = "done"
        /\ Len(calls[i].requests) = 1

\* Two finished invocations given the same arguments, the same credentials
\* at their call and the same response have the same outcome.
OutcomeDetermined ==
    \A i, j \in CallIds :
        (/\ calls[i].pc = "done" /\ calls[j].pc = "done"
         /\ calls[i].op = calls[j].op
         /\ calls[i].query = calls[j].query
         /\ calls[i].username = calls[j].username
         /\ calls[i].password = calls[j].password
         /\ calls[i].response = calls[j].response) =>
            (calls[i].res = calls[j].res /\ calls[i].out = calls[j].out)

\* An invocation that starts reads the credentials the environment holds at
\* that moment, and its request carries them.
ReadsAtCallTime ==
    Len(calls') > Len(calls) =>
        LET new == calls'[Len(calls')] IN
        /\ new.username = env.username
        /\ new.password = env.password
        /\ \A k \in 1..Len(new.requests) :
              new.requests[k].authorization
                  = <<"Basic ">> \o AuthString(env.username, env.password)

\* A step of one invocation changes neither another invocation nor the
\* environment.
LeavesOthersAlone ==
    /\ Len(calls') >= Len(calls)
    /\ Cardinality({i \in CallIds : calls'[i] # calls[i]}) <= 1
    /\ Len(calls') > Len(calls) => \A i \in CallIds : calls'[i] = calls[i]
    /\ calls' # calls => env' = env

\* C9: across any interleaving of invocations no invocation changes state
\* another reads: each search uses the credentials of the environment at the
\* moment it is called, and its outcome depends only on its arguments, those
\* credentials and its own response.
C9_InvocationsIsolated ==
    []OutcomeDetermined /\ [][ReadsAtCallTime /\ LeavesOthersAlone]_vars

\* A search is suspended at fetch with credentials the environment has since
\* lost, while a later one read the environment without a username.
C9_Witness ==
    /\ Len(calls) = 2
    /\ calls[1].pc = "fetch"
    /\ calls[1].username.set /\ calls[1].password.set
    /\ ~calls[2].username.set
    /\ ~env.username.set

(***************************************************************************)
(* Claims about every handler.                                             *)
(***************************************************************************)
\* the finished invocations: what the handler's callee threw, if it did, and
\* the handler's outcome
Invocation(op, threw, message, out) ==
    [op |-> op, threw |-> threw, message |-> message, out |-> out]

FinishedInvocations ==
    {Invocation(s.op, s.evaluated /\ s.res.threw, s.res.message, s.out) :
        s \in {s \in {toolRes, promptRes} : s.op # "none"}}
    \cup {Invocation(calls[i].op, calls[i].res.threw, calls[i].res.message, calls[i].out) :
            i \in {i \in CallIds : calls[i].pc = "done"}}

ToolNames == {"add", "mathAdditionExample", "searchHighspot"}

\* C4 as claimed: for every tool and prompt handler, when an error is thrown
\* during its execution the envelope's content is exactly one text block
\* whose text is the error's message.
C4_ErrorIsTheOnlyBlock ==
    \A c \in FinishedInvocations :
        c.threw => c.out.content = <<TextBlock(c.message)>>

\* C4 as amended: that holds of every tool handler; a prompt handler's first
\* text block carries the error's message inside descriptive text, and is
\* the only block except for guidedAdditionHelp, which adds a hint block.
C4_ErrorIsCarried ==
    \A c \in FinishedInvocations :
        c.threw =>
            /\ c.out.kind = "envelope"
            /\ IF c.op \in ToolNames
               THEN c.out.content = <<TextBlock(c.message)>>
               ELSE /\ Len(c.out.content) = (IF c.op = "guidedAdditionHelp" THEN 2 ELSE 1)
                    /\ \A b \in 1..Len(c.out.content) : c.out.content[b].type = "text"
                    /\ Carries(c.out.content[1].text, c.message)
                    /\ c.out.content[1].text # c.message

\* The search prompt has answered a missing credential with one block that
\* carries the configuration message.
C4_Witness ==
    \E i \in CallIds :
        /\ calls[i].op = "search_highspot_prompt"
        /\ calls[i].pc = "done"
        /\ calls[i].res.threw
        /\ calls[i].res.message = ConfigurationMessage
        /\ Len(calls[i].out.content) = 1

\* C5: no invocation of a tool or prompt handler ends by propagating an
\* exception: each one that finishes returns an envelope with a non-empty
\* sequence of text blocks.
C5_AlwaysAnEnvelope ==
    \A c \in FinishedInvocations :
        /\ c.out.kind = "envelope"
        /\ Len(c.out.content) >= 1
        /\ \A b \in 1..Len(c.out.content) : c.out.content[b].type = "text"

\* The search tool has answered a success response with an unparseable body.
C5_Witness ==
    \E i \in CallIds :
        /\ calls[i].op = "searchHighspot"
        /\ calls[i].pc = "done"
        /\ calls[i].response.status = 200
        /\ calls[i].res.threw
        /\ calls[i].out.kind = "envelope"

====
